---- MODULE Spec2Model ----
(***************************************************************************)
(* State-machine model of src/globe.py: the BuildThread worker pipeline,   *)
(* the queued signal delivery to the interactive (GUI) thread, the         *)
(* GlobeWidget upload gate (set_arrays / initializeGL / _upload), the      *)
(* camera and input handlers, set_location and the loading overlay.        *)
(*                                                                         *)
(* Numbers.  Python floats are modelled in decimal fixed point:            *)
(*   cam_z          in 1e-5 scene units   (2.9  -> 290000)                 *)
(*   rot_x, vel_x   in 1e-3 degrees       (89   -> 89000)                  *)
(*   rot_y, vel_y   in 1e-4 radians       (0.004 -> 40)                    *)
(*   lat, lng       in 1e-2 degrees       (51.5 -> 5150)                   *)
(* Products that are not exact in these units (the 0.93 decay, radians())  *)
(* are truncated.  Arrays are represented by their row count (len).        *)
(*                                                                         *)
(* Specifications.                                                         *)
(*   Spec       the session as MainWindow wires it                         *)
(*   SpecDup    Spec with duplicate deliveries of the gate's two events    *)
(*   SpecFail   Spec with a stage of the worker raising an exception       *)
(*   SpecStats  Spec with the panels' refresh timer (get_stats)            *)
(*   SpecGen    the stage helpers _build_mask, _dots and _borders, one     *)
(*              loop iteration per step, on tables of CONTINENTS entries;  *)
(*              sample positions are in 1e-2 degrees                       *)
(*   SpecStars  _stars, one star per step, in two runs side by side        *)
(*   SpecInput  the interactive thread after the worker has finished,      *)
(*              with a log of the mouse events and render ticks handled    *)
(***************************************************************************)
EXTENDS Integers, Sequences, FiniteSets, TLC

VARIABLES
    bpc,        \* BuildThread.run: index of the next emit (0..NEmits: finished)
    wl,         \* BuildThread.run locals: the arrays built so far; in SpecGen
                \* and SpecStars the frame (arguments and locals) of the
                \* running helper; in SpecInput the log of handled events
    mainQ,      \* queued signal deliveries posted to the GUI thread (FIFO)
    emitted,    \* history: every signal the worker emitted, in order
    gl_ok,      \* GlobeWidget._gl_ok
    arrays,     \* GlobeWidget._arrays: <<>> is None, <<dict>> otherwise
    vbos,       \* GlobeWidget._vbos: key -> <<gid, count>>
    lod,        \* GlobeWidget._lod
    gpu,        \* the GL side: [next gid, buffers gid -> uploaded rows]
    gate,       \* history: counts of the gate's events and of uploads
    ready,      \* history: what _on_gl_ready saw each time glReady arrived
    overlay,    \* LoadOverlay: percent shown, every percent set, fade shots
    cam,        \* camera: cam_z, rot_x, rot_y, vel_x, vel_y, dragging, last_pos
    rotation_dir, \* GlobeWidget.rotation_dir
    marker,     \* marker_lat / marker_lng / marker_source
    frame,      \* history: the last frame _paint_dots drew (<<>>: none yet)
    stats,      \* history: the get_stats() snapshot _refresh last displayed
    budget      \* bookkeeping of the bounds: inputs and ticks used

vars == <<bpc, wl, mainQ, emitted, gl_ok, arrays, vbos, lod, gpu, gate, ready,
          overlay, cam, rotation_dir, marker, frame, stats, budget>>

-----------------------------------------------------------------------------
(* Bounds of the model *)

\* interactive inputs (mouse, wheel, set_location) per behaviour
MaxInputs == 3
\* render ticks that reach the per-frame update per behaviour
MaxTicks == 2
\* duplicate deliveries of a gate trigger (SpecDup only)
MaxDups == 1

-----------------------------------------------------------------------------
(* Program constants *)

CamInit == 290000
CamMin == 130000
CamMax == 550000
PitchMax == 89000
LodHighBelow == 180000
LodMedBelow == 320000
AutoRot == 40
DragYaw == 50
DragPitch == 300
DecayPct == 93
WheelUnit == 125
PiE4 == 31416
StarCount == 4000


-----------------------------------------------------------------------------
(* Small helpers *)

Max(a, b) == IF a >= b THEN a ELSE b

Min(a, b) == IF a <= b THEN a ELSE b

\* dict assignment m[k] = v
Put(m, k, v) == [x \in (DOMAIN m) \cup {k} |-> IF x = k THEN v ELSE m[x]]

\* the empty dict {}
EmptyMap == [x \in {} |-> 0]

\* len(np.arange(start, stop, step)) = ceil((stop - start) / step), in tenths
ArangeLen(start, stop, step) == ((stop - start) + step - 1) \div step

\* x * 0.93, truncated towards zero in the fixed-point unit
Decay(v) == IF v >= 0 THEN (v * DecayPct) \div 100 ELSE -(((-v) * DecayPct) \div 100)

\* math.radians of an angle in 1e-2 degrees, in 1e-4 radians (truncated)
Radians(d) == IF d >= 0 THEN (d * PiE4) \div 18000 ELSE -(((-d) * PiE4) \div 18000)

-----------------------------------------------------------------------------
(* BuildThread: the stages, as far as the render side reads them (len) *)

\* _dots(mask, res): one row per (lat, lng) sample; res in tenths of a degree
Dots(res) == [len |-> ArangeLen(-900, 910, res) * ArangeLen(-1800, 1800, res)]

\* _borders(mask): two points per segment found, or the 2-point placeholder
Borders(nseg) == [len |-> IF nseg > 0 THEN 2 * nseg ELSE 2]

\* _stars(): one row per star
Stars == [len |-> StarCount]

\* RunProgress with a fault: two stages report in the wrong order
RunProgress_outOfOrder == <<5, 30, 32, 58, 45, 70, 72, 87, 89, 95>>

\* the percentages run() emits with progress, in program order
RunProgress == <<5, 30, 32, 45, 58, 70, 72, 87, 89, 95>>

\* number of emits of run(): every progress, then done
NEmits == Len(RunProgress) + 1

\* the locals run() has assigned when it makes its k-th emit, nseg being the
\* number of segments the border stage finds (kept as "segs", the list
\* _borders builds its array from)
RunLocals(l, k, nseg) ==
    CASE k = 2  -> Put(l, "mask", [len |-> 360])
      [] k = 4  -> Put(l, "dots_low", Dots(30))
      [] k = 5  -> Put(l, "dots_med", Dots(20))
      [] k = 6  -> Put(l, "dots_high", Dots(12))
      [] k = 8  -> Put(Put(l, "borders", Borders(nseg)), "segs", nseg)
      [] k = 10 -> Put(l, "stars", Stars)
      [] OTHER  -> l

\* the dict run() passes to done.emit
DoneDict(l) ==
    [dots   |-> [low |-> l["dots_low"], med |-> l["dots_med"], high |-> l["dots_high"]],
     border |-> l["borders"],
     stars  |-> l["stars"]]

\* RunEmit with a fault: done is emitted before the last progress
RunEmit_doneBeforeLast(l, k) ==
    IF k = Len(RunProgress) THEN [sig |-> "done", arrays |-> DoneDict(l)]
    ELSE IF k = Len(RunProgress) + 1 THEN [sig |-> "progress", pct |-> RunProgress[k - 1]]
    ELSE [sig |-> "progress", pct |-> RunProgress[k]]

\* RunEmit with a fault: done is emitted a second time
RunEmit_doneTwice(l, k) ==
    IF k < Len(RunProgress)
    THEN [sig |-> "progress", pct |-> RunProgress[k]]
    ELSE [sig |-> "done", arrays |-> DoneDict(l)]

\* the k-th signal run() emits
RunEmit(l, k) ==
    IF k <= Len(RunProgress)
    THEN [sig |-> "progress", pct |-> RunProgress[k]]
    ELSE [sig |-> "done", arrays |-> DoneDict(l)]

-----------------------------------------------------------------------------
(* LoadOverlay and the main window's ready handling *)

\* LoadOverlay.set_progress(pct, msg); the message text is not modelled
set_progress(o, pct) ==
    [o EXCEPT !.pct = pct, !.bar = (320 * pct) \div 100, !.shown = Append(@, pct)]

\* The widget-side state the gate's handlers read and write, as one record
W == [gl_ok |-> gl_ok, arrays |-> arrays, vbos |-> vbos, gpu |-> gpu,
      gate |-> gate, ready |-> ready, overlay |-> overlay]

\* MainWindow._on_gl_ready: the slot of glReady (same thread: called directly)
on_gl_ready(w) ==
    [w EXCEPT !.ready = Append(@, DOMAIN w.vbos),
              !.overlay = [set_progress(w.overlay, 100) EXCEPT !.fades = @ + 1]]

\* glGenBuffers + glBindBuffer + glBufferData for one array, then the
\* assignment self._vbos[key] = (gid, len(data))
UploadOne(w, key, data) ==
    [w EXCEPT !.gpu = Append(@, data.len),
              !.vbos = Put(@, key, <<Len(w.gpu) + 1, data.len>>)]

\* upload with a fault: glReady is emitted before the border and star buffers
upload_readyEarly(w) ==
    IF w.arrays = <<>> THEN w
    ELSE LET arr == w.arrays[1]
             w1 == UploadOne(w,  "dots_low",  arr.dots.low)
             w2 == UploadOne(w1, "dots_med",  arr.dots.med)
             w3 == UploadOne(w2, "dots_high", arr.dots.high)
             w4 == on_gl_ready(w3)
             w5 == UploadOne(w4, "border",    arr.border)
             w6 == UploadOne(w5, "stars",     arr.stars)
         IN  [w6 EXCEPT !.gate = Append(@, "upload")]

\* GlobeWidget._upload
upload(w) ==
    IF w.arrays = <<>> THEN w
    ELSE LET arr == w.arrays[1]
             w1 == UploadOne(w,  "dots_low",  arr.dots.low)
             w2 == UploadOne(w1, "dots_med",  arr.dots.med)
             w3 == UploadOne(w2, "dots_high", arr.dots.high)
             w4 == UploadOne(w3, "border",    arr.border)
             w5 == UploadOne(w4, "stars",     arr.stars)
             w6 == [w5 EXCEPT !.gate = Append(@, "upload")]
         IN  on_gl_ready(w6)

\* set_arrays with a fault: the arrays are stored, the ready context is not checked
set_arrays_noUpload(w, a) ==
    [w EXCEPT !.arrays = <<a>>, !.gate = Append(@, "set_arrays")]

\* GlobeWidget.set_arrays
set_arrays(w, a) ==
    LET w1 == [w EXCEPT !.arrays = <<a>>, !.gate = Append(@, "set_arrays")]
    IN  IF w1.gl_ok THEN upload(w1) ELSE w1

\* GlobeWidget.initializeGL
initializeGL(w) ==
    LET w1 == [w EXCEPT !.gl_ok = TRUE, !.gate = Append(@, "initializeGL")]
    IN  IF w1.arrays # <<>> THEN upload(w1) ELSE w1

\* MainWindow._on_arrays_ready
on_arrays_ready(w, a) ==
    LET w1 == set_arrays(w, a)
    IN  IF DOMAIN w1.vbos # {}
        THEN [w1 EXCEPT !.overlay = [set_progress(w1.overlay, 100) EXCEPT !.fades = @ + 1]]
        ELSE w1

\* the variables of W take the values of record w
SetW(w) ==
    /\ gl_ok' = w.gl_ok
    /\ arrays' = w.arrays
    /\ vbos' = w.vbos
    /\ gpu' = w.gpu
    /\ gate' = w.gate
    /\ ready' = w.ready
    /\ overlay' = w.overlay

-----------------------------------------------------------------------------
(* GlobeWidget: camera, input handlers, per-frame update, set_location *)

\* max(lo, min(hi, x))
Clamp(lo, hi, x) == Max(lo, Min(hi, x))

\* GlobeWidget.mousePressEvent
mousePressEvent(c, button, pos) ==
    IF button = "left"
    THEN [c EXCEPT !.dragging = TRUE, !.last_pos = pos, !.vel_x = 0, !.vel_y = 0]
    ELSE c

\* mouseMoveEvent with a fault: the pitch is not clamped
mouseMoveEvent_noClamp(c, pos) ==
    IF c.dragging
    THEN LET dx == pos[1] - c.last_pos[1]
             dy == pos[2] - c.last_pos[2]
         IN  [c EXCEPT !.rot_y = @ + dx * DragYaw,
                       !.rot_x = @ + dy * DragPitch,
                       !.vel_y = dx * DragYaw,
                       !.vel_x = dy * DragPitch,
                       !.last_pos = pos]
    ELSE c

\* GlobeWidget.mouseMoveEvent
mouseMoveEvent(c, pos) ==
    IF c.dragging
    THEN LET dx == pos[1] - c.last_pos[1]
             dy == pos[2] - c.last_pos[2]
         IN  [c EXCEPT !.rot_y = @ + dx * DragYaw,
                       !.rot_x = Clamp(-PitchMax, PitchMax, @ + dy * DragPitch),
                       !.vel_y = dx * DragYaw,
                       !.vel_x = dy * DragPitch,
                       !.last_pos = pos]
    ELSE c

\* mouseReleaseEvent with a fault: the release stops the globe
mouseReleaseEvent_stop(c, button) ==
    IF button = "left" THEN [c EXCEPT !.dragging = FALSE, !.vel_x = 0, !.vel_y = 0] ELSE c

\* GlobeWidget.mouseReleaseEvent
mouseReleaseEvent(c, button) ==
    IF button = "left" THEN [c EXCEPT !.dragging = FALSE] ELSE c

\* GlobeWidget.wheelEvent; delta is e.angleDelta().y()
wheelEvent(c, delta) ==
    [c EXCEPT !.cam_z = Clamp(CamMin, CamMax, @ - delta * WheelUnit)]

\* Momentum with a fault: the update is applied during a drag as well
Momentum_whileDragging(c, dir) ==
    LET ry == IF dir = "west-east" THEN c.rot_y + AutoRot
              ELSE IF dir = "east-west" THEN c.rot_y - AutoRot
              ELSE c.rot_y
        vx == Decay(c.vel_x)
        vy == Decay(c.vel_y)
    IN  [c EXCEPT !.vel_x = vx, !.vel_y = vy,
                  !.rot_y = ry + vy,
                  !.rot_x = Clamp(-PitchMax, PitchMax, @ + vx)]

\* GlobeWidget.paintGL, "auto-rotate + momentum"
Momentum(c, dir) ==
    IF c.dragging THEN c
    ELSE LET ry == IF dir = "west-east" THEN c.rot_y + AutoRot
                   ELSE IF dir = "east-west" THEN c.rot_y - AutoRot
                   ELSE c.rot_y
             vx == Decay(c.vel_x)
             vy == Decay(c.vel_y)
         IN  [c EXCEPT !.vel_x = vx, !.vel_y = vy,
                       !.rot_y = ry + vy,
                       !.rot_x = Clamp(-PitchMax, PitchMax, @ + vx)]

\* LodFor with a fault: the thresholds are inclusive
LodFor_inclusive(z) ==
    IF z <= LodHighBelow THEN "high" ELSE IF z <= LodMedBelow THEN "med" ELSE "low"

\* GlobeWidget._paint_dots: the LOD chosen for a camera distance
LodFor(z) == IF z < LodHighBelow THEN "high" ELSE IF z < LodMedBelow THEN "med" ELSE "low"

\* GlobeWidget._vbo_points(key): what glDrawArrays is given, <<>> when the
\* key has no buffer
vbo_points(v, key) == IF key \in DOMAIN v THEN <<[key |-> key, gid |-> v[key][1], cnt |-> v[key][2]]>> ELSE <<>>

\* dots_<lod>
DotsKey(l) == CASE l = "high" -> "dots_high" [] l = "med" -> "dots_med" [] OTHER -> "dots_low"

\* round(cam_z, 2), in 1e-2 scene units; the distances the inputs below
\* produce are multiples of 0.1, so no value lies half-way
Round2(z) == (z + 500) \div 1000

\* lod.upper()
Upper(l) == CASE l = "high" -> "HIGH" [] l = "med" -> "MED" [] OTHER -> "LOW"

\* get_stats(): (lod.upper(), cnt, pct, round(cam_z, 2), border_cnt), read
\* from _lod, _vbos and cam_z
get_stats(l, v, z) ==
    [lod        |-> Upper(l),
     cnt        |-> IF DotsKey(l) \in DOMAIN v THEN v[DotsKey(l)][2] ELSE 0,
     pct        |-> CASE l = "low" -> 25 [] l = "med" -> 55 [] l = "high" -> 90
                      [] OTHER -> 55,
     zoom       |-> Round2(z),
     border_cnt |-> IF "border" \in DOMAIN v THEN v["border"][2] ELSE 0]

\* set_location with a fault: the yaw is not turned by pi
set_location_noPi(s, lat, lng, src) ==
    [cam    |-> [s.cam EXCEPT !.rot_y = -(Radians(lng + 18000)),
                              !.rot_x = -(lat * 5)],
     marker |-> [set |-> TRUE, lat |-> lat, lng |-> lng, source |-> src]]

\* GlobeWidget.set_location, on the record [cam, marker]
set_location(s, lat, lng, src) ==
    [cam    |-> [s.cam EXCEPT !.rot_y = -(Radians(lng + 18000)) + PiE4,
                              !.rot_x = -(lat * 5)],
     marker |-> [set |-> TRUE, lat |-> lat, lng |-> lng, source |-> src]]

-----------------------------------------------------------------------------
(* Inputs *)

Buttons == {"left", "right"}

\* e.pos() of the mouse events
Positions == {<<0, 0>>, <<40, 400>>, <<-10, 200>>}

\* e.angleDelta().y() of the wheel events
WheelDeltas == {-240, 880, 2400, -2400}

\* GeoResults with a fault: an API's answer keeps the service's name as source
GeoResults_serviceName ==
    {[lat |-> 2335, lng |-> 8533, source |-> "default"],
     [lat |-> 18000, lng |-> 1, source |-> "ipwho.is"]}

\* the dicts GeoThread.run can emit with result: the default, or an API's
\* answer with non-zero lat and lng
GeoResults ==
    {[lat |-> 2335, lng |-> 8533, source |-> "default"],
     [lat |-> 18000, lng |-> 1, source |-> "ip"]}

\* numbers of segments the border stage may find: none (the placeholder is
\* returned) or some; the mask that decides it is not modelled here
SegCounts == {0, 3}

\* what the settings panel's rotDir signal carries
Directions == {"west-east", "east-west", "stopped"}

\* arguments of direct set_location calls
LocationCalls == {[lat |-> 5150, lng |-> -12, source |-> "gps"]}

-----------------------------------------------------------------------------
(* Initial state: MainWindow.__init__ has run, both threads are started *)

\* every variable but the worker's locals
InitRest ==
    /\ bpc = 0
    /\ mainQ = <<>>
    /\ emitted = <<>>
    /\ gl_ok = FALSE
    /\ arrays = <<>>
    /\ vbos = EmptyMap
    /\ lod = "med"
    /\ gpu = <<>>
    /\ gate = <<>>
    /\ ready = <<>>
    /\ overlay = [pct |-> 0, bar |-> 0, shown |-> <<>>, fades |-> 0]
    /\ cam = [cam_z |-> CamInit, rot_x |-> 0, rot_y |-> 0, vel_x |-> 0, vel_y |-> 0,
              dragging |-> FALSE, last_pos |-> <<0, 0>>]
    /\ rotation_dir = "west-east"
    /\ marker = [set |-> FALSE, lat |-> 0, lng |-> 0, source |-> "ip"]
    /\ frame = <<>>
    /\ stats = <<>>
    /\ budget = [inputs |-> 0, ticks |-> 0, geo |-> FALSE, dups |-> 0]

Init == wl = EmptyMap /\ InitRest

gateVars == <<gl_ok, arrays, vbos, gpu, gate, ready, overlay>>

workerVars == <<bpc, wl, emitted>>

camVars == <<cam, rotation_dir, marker, lod, frame, stats>>

-----------------------------------------------------------------------------
(* Actions *)

\* BuildStep with a fault: done is connected directly, so the worker thread
\* itself runs _on_arrays_ready
BuildStep_directCall ==
    /\ bpc < NEmits
    /\ \E nseg \in SegCounts :
         /\ (bpc + 1 # 8) => nseg = 0
         /\ LET l == RunLocals(wl, bpc + 1, nseg)
                ev == RunEmit(l, bpc + 1)
            IN  /\ wl' = l
                /\ emitted' = Append(emitted, ev)
                /\ IF ev.sig = "done"
                   THEN SetW(on_arrays_ready(W, ev.arrays)) /\ mainQ' = mainQ
                   ELSE mainQ' = Append(mainQ, ev) /\ UNCHANGED gateVars
    /\ bpc' = bpc + 1
    /\ UNCHANGED <<camVars, budget>>

\* BuildThread.run up to and including its next emit; the signal is queued
\* to the GUI thread, where both receivers live
BuildStep ==
    /\ bpc < NEmits
    /\ \E nseg \in SegCounts :
         /\ (bpc + 1 # 8) => nseg = 0
         /\ LET l == RunLocals(wl, bpc + 1, nseg)
                ev == RunEmit(l, bpc + 1)
            IN  /\ wl' = l
                /\ mainQ' = Append(mainQ, ev)
                /\ emitted' = Append(emitted, ev)
    /\ bpc' = bpc + 1
    /\ UNCHANGED <<gateVars, camVars, budget>>

\* the GUI thread delivers a queued progress signal to LoadOverlay.set_progress
DeliverProgress ==
    /\ mainQ # <<>>
    /\ Head(mainQ).sig = "progress"
    /\ overlay' = set_progress(overlay, Head(mainQ).pct)
    /\ mainQ' = Tail(mainQ)
    /\ UNCHANGED <<workerVars, gl_ok, arrays, vbos, gpu, gate, ready, camVars, budget>>

\* the GUI thread delivers the queued done signal to MainWindow._on_arrays_ready
DeliverDone ==
    /\ mainQ # <<>>
    /\ Head(mainQ).sig = "done"
    /\ SetW(on_arrays_ready(W, Head(mainQ).arrays))
    /\ mainQ' = Tail(mainQ)
    /\ UNCHANGED <<workerVars, camVars, budget>>

\* Qt calls initializeGL once, before the first paintGL
InitializeGL ==
    /\ ~gl_ok
    /\ SetW(initializeGL(W))
    /\ UNCHANGED <<workerVars, mainQ, camVars, budget>>

\* one render tick: GlobeWidget.paintGL (Qt paints only an initialised widget).
\* Of the frame's state the model keeps the camera, _lod and the dot buffer
\* drawn; moon_angle and star_rot_x/y, which only the drawing reads, are left out.
PaintGL ==
    /\ gl_ok
    /\ budget.ticks < MaxTicks
    /\ IF DOMAIN vbos = {}
       THEN UNCHANGED <<cam, lod, frame, budget>>
       ELSE /\ cam' = Momentum(cam, rotation_dir)
            /\ lod' = LodFor(cam.cam_z)
            /\ frame' = <<[cam_z |-> cam.cam_z, lod |-> LodFor(cam.cam_z),
                           drawn |-> vbo_points(vbos, DotsKey(LodFor(cam.cam_z)))]>>
            /\ budget' = [budget EXCEPT !.ticks = @ + 1]
    /\ UNCHANGED <<workerVars, mainQ, gateVars, rotation_dir, marker, stats>>

InputStep == budget.inputs < MaxInputs /\ budget' = [budget EXCEPT !.inputs = @ + 1]

MousePress ==
    /\ InputStep
    /\ \E b \in Buttons, p \in Positions : cam' = mousePressEvent(cam, b, p)
    /\ UNCHANGED <<workerVars, mainQ, gateVars, rotation_dir, marker, lod, frame, stats>>

MouseMove ==
    /\ InputStep
    /\ \E p \in Positions : cam' = mouseMoveEvent(cam, p)
    /\ UNCHANGED <<workerVars, mainQ, gateVars, rotation_dir, marker, lod, frame, stats>>

MouseRelease ==
    /\ InputStep
    /\ \E b \in Buttons : cam' = mouseReleaseEvent(cam, b)
    /\ UNCHANGED <<workerVars, mainQ, gateVars, rotation_dir, marker, lod, frame, stats>>

Wheel ==
    /\ InputStep
    /\ \E d \in WheelDeltas : cam' = wheelEvent(cam, d)
    /\ UNCHANGED <<workerVars, mainQ, gateVars, rotation_dir, marker, lod, frame, stats>>

\* the slot of SettingsPanel.rotDir: setattr(globe, 'rotation_dir', d)
SetRotationDir ==
    /\ InputStep
    /\ \E d \in Directions : rotation_dir' = d
    /\ UNCHANGED <<workerVars, mainQ, gateVars, cam, marker, lod, frame, stats>>

\* set_location(d.lat, d.lng, d.source) on the widget
LocateWith(d) ==
    LET s == set_location([cam |-> cam, marker |-> marker], d.lat, d.lng, d.source)
    IN  cam' = s.cam /\ marker' = s.marker

\* MainWindow._on_geo(d): the slot of GeoThread.result, emitted once per run
OnGeo ==
    /\ ~budget.geo
    /\ budget.inputs < MaxInputs
    /\ budget' = [budget EXCEPT !.inputs = @ + 1, !.geo = TRUE]
    /\ \E d \in GeoResults : LocateWith(d)
    /\ UNCHANGED <<workerVars, mainQ, gateVars, rotation_dir, lod, frame, stats>>

\* a direct call of the widget's API method set_location
SetLocation ==
    /\ InputStep
    /\ \E d \in LocationCalls : LocateWith(d)
    /\ UNCHANGED <<workerVars, mainQ, gateVars, rotation_dir, lod, frame, stats>>

\* MainWindow._refresh, on its timer: once buffers exist the panels show the
\* get_stats() snapshot
Refresh ==
    /\ DOMAIN vbos # {}
    /\ stats' = <<get_stats(lod, vbos, cam.cam_z)>>
    /\ UNCHANGED <<workerVars, mainQ, gateVars, cam, rotation_dir, marker, lod,
                   frame, budget>>

Next ==
    \/ BuildStep
    \/ DeliverProgress
    \/ DeliverDone
    \/ InitializeGL
    \/ PaintGL
    \/ MousePress
    \/ MouseMove
    \/ MouseRelease
    \/ Wheel
    \/ SetRotationDir
    \/ OnGeo
    \/ SetLocation

Spec == Init /\ [][Next]_vars

\* the session with the panels' refresh timer running
NextStats == Next \/ Refresh

SpecStats == Init /\ [][NextStats]_vars

-----------------------------------------------------------------------------
(* Duplicate triggers: the same handlers, delivered again *)

\* initializeGL called again on the initialised widget
ReInitializeGL ==
    /\ gl_ok
    /\ budget.dups < MaxDups
    /\ SetW(initializeGL(W))
    /\ budget' = [budget EXCEPT !.dups = @ + 1]
    /\ UNCHANGED <<workerVars, mainQ, camVars>>

\* set_arrays called again with the dict it was given before
ReSetArrays ==
    /\ arrays # <<>>
    /\ budget.dups < MaxDups
    /\ SetW(set_arrays(W, arrays[1]))
    /\ budget' = [budget EXCEPT !.dups = @ + 1]
    /\ UNCHANGED <<workerVars, mainQ, camVars>>

NextDup == Next \/ ReInitializeGL \/ ReSetArrays

SpecDup == Init /\ [][NextDup]_vars

-----------------------------------------------------------------------------
(* A failing stage: run() has no try/except, so an exception raised inside
   _build_mask, _dots, _borders or _stars leaves run() at once *)

\* bpc of a run that an exception has ended
Raised == NEmits + 1

\* the emits of run() that directly follow a stage call
StageEmits == {2, 4, 5, 6, 8, 10}

\* StageFails with a fault: the failing run hands over what it has built
StageFails_emitsPartial ==
    /\ bpc < NEmits
    /\ bpc + 1 \in StageEmits
    /\ bpc' = Raised
    /\ LET ev == [sig |-> "done", arrays |-> wl]
       IN  mainQ' = Append(mainQ, ev) /\ emitted' = Append(emitted, ev)
    /\ UNCHANGED <<wl, gateVars, camVars, budget>>

\* the stage run() is about to call raises: the statements after the call,
\* every later emit included, are not executed, and nothing calls run() again
StageFails ==
    /\ bpc < NEmits
    /\ bpc + 1 \in StageEmits
    /\ bpc' = Raised
    /\ UNCHANGED <<wl, emitted, mainQ, gateVars, camVars, budget>>

NextFail == Next \/ StageFails

SpecFail == Init /\ [][NextFail]_vars

-----------------------------------------------------------------------------
(* The stage helpers, one loop iteration per step.  wl holds the frame of
   the helper being executed: its arguments and locals.  A mask is the set
   of its True cells <<li, la>>.  Polygon vertices are whole degrees. *)

\* int(a / b) for b > 0: Python's int() truncates toward zero
TruncDiv(a, b) == IF a >= 0 THEN a \div b ELSE -((-a) \div b)

\* pip(x, y, poly) of _build_mask, for x = x2/2 and y = y2/2: the even-odd
\* rule, one toggle per ring edge (ox,oy)-(cx,cy) that the ray from (x, y)
\* crosses.  x < (ox-cx)*(y-cy)/(oy-cy+1e-12)+cx is multiplied out by the
\* nonzero oy-cy; on equality the 1e-12 decides, by the sign of x-cx
pip(x2, y2, poly) ==
    LET o(i) == poly[IF i = 1 THEN Len(poly) ELSE i - 1]
        Toggles(i) ==
            LET cx == 2 * poly[i][1]
                cy == 2 * poly[i][2]
                ox == 2 * o(i)[1]
                oy == 2 * o(i)[2]
                d  == oy - cy
                P  == (ox - cx) * (y2 - cy)
                l  == (x2 - cx) * d
            IN  /\ (cy > y2) # (oy > y2)
                /\ IF d > 0 THEN l < P \/ (l = P /\ x2 < cx)
                            ELSE l > P \/ (l = P /\ x2 > cx)
    IN  Cardinality({i \in DOMAIN poly : Toggles(i)}) % 2 = 1

\* range(max(-180,int(ml)), min(180,int(xl)+1)) of a table entry
Lngs(e) == Max(-180, e.ml) .. (Min(180, e.xl + 1) - 1)

\* range(max(-90,int(mb)), min(90,int(xb)+1)) of a table entry
Lats(e) == Max(-90, e.mb) .. (Min(90, e.xb + 1) - 1)

\* li, la of _build_mask for the cell of whole degrees (lng, lat)
MaskIndex(lng, lat) == <<(lng + 180) % 360, Max(0, Min(179, 89 - lat))>>

\* entries of CONTINENTS
Europe ==
    [ml |-> -10, xl |-> 25, mb |-> 36, xb |-> 60,
     poly |-> << <<-10, 36>>, <<10, 36>>, <<15, 38>>, <<25, 37>>, <<25, 42>>,
                 <<20, 44>>, <<18, 48>>, <<10, 52>>, <<5, 54>>, <<0, 54>>,
                 <<-2, 56>>, <<-5, 48>>, <<-10, 44>>, <<-10, 36>> >>]

Madagascar ==
    [ml |-> 44, xl |-> 51, mb |-> -26, xb |-> -12,
     poly |-> << <<44, -13>>, <<46, -12>>, <<50, -15>>, <<51, -18>>, <<50, -22>>,
                 <<47, -25>>, <<44, -26>>, <<44, -13>> >>]

Britain ==
    [ml |-> -8, xl |-> 2, mb |-> 50, xb |-> 59,
     poly |-> << <<-8, 52>>, <<-5, 52>>, <<-3, 50>>, <<0, 50>>, <<2, 52>>, <<1, 55>>,
                 <<-2, 58>>, <<-5, 58>>, <<-6, 56>>, <<-5, 54>>, <<-8, 53>>,
                 <<-8, 52>> >>]

Iceland ==
    [ml |-> -25, xl |-> -12, mb |-> 63, xb |-> 67,
     poly |-> << <<-25, 63>>, <<-20, 63>>, <<-14, 65>>, <<-12, 65>>, <<-15, 66>>,
                 <<-20, 67>>, <<-25, 66>>, <<-25, 63>> >>]

\* the south-east corner of the Antarctica entry (-180,180,-90,-65)
AntarcticCorner ==
    [ml |-> 177, xl |-> 180, mb |-> -90, xb |-> -88,
     poly |-> << <<177, -90>>, <<180, -90>>, <<180, -88>>, <<177, -88>>,
                 <<177, -90>> >>]

\* the polygon tables _build_mask is run on: entries in the order of
\* CONTINENTS (Britain's box lies inside Europe's), and the empty table
Tables ==
    { <<>>,
      <<Europe, Britain>>,
      <<Madagascar, Iceland, AntarcticCorner>> }

\* the frame of _build_mask when it reaches its outer loop; p is the index of
\* the entry, k the number of cells of its box already visited
build_mask_frame(table) ==
    [fn |-> "_build_mask", table |-> table, p |-> 1, k |-> 0, mask |-> {},
     cell |-> <<>>]

\* build_mask_step with a fault: the test result is stored, True or False
build_mask_step_overwrite(f) ==
    LET e    == f.table[f.p]
        nlat == Cardinality(Lats(e))
        lng  == Max(-180, e.ml) + (f.k \div nlat)
        lat  == Max(-90, e.mb) + (f.k % nlat)
        c    == MaskIndex(lng, lat)
        in   == pip(2 * lng + 1, 2 * lat + 1, e.poly)
        last == f.k + 1 = Cardinality(Lngs(e)) * nlat
    IN  [f EXCEPT !.mask = IF in THEN f.mask \cup {c} ELSE f.mask \ {c},
                  !.cell = <<[lng |-> lng, lat |-> lat, p |-> f.p, skipped |-> FALSE]>>,
                  !.k = IF last THEN 0 ELSE f.k + 1,
                  !.p = IF last THEN f.p + 1 ELSE f.p]

\* one iteration of the innermost loop of _build_mask (lng outer, lat inner):
\* a cell that is True already is skipped, else it is set when pip holds for
\* its centre (lng+0.5, lat+0.5)
build_mask_step(f) ==
    LET e    == f.table[f.p]
        nlat == Cardinality(Lats(e))
        lng  == Max(-180, e.ml) + (f.k \div nlat)
        lat  == Max(-90, e.mb) + (f.k % nlat)
        c    == MaskIndex(lng, lat)
        skip == c \in f.mask
        in   == pip(2 * lng + 1, 2 * lat + 1, e.poly)
        last == f.k + 1 = Cardinality(Lngs(e)) * nlat
    IN  [f EXCEPT !.mask = IF ~skip /\ in THEN f.mask \cup {c} ELSE f.mask,
                  !.cell = <<[lng |-> lng, lat |-> lat, p |-> f.p, skipped |-> skip]>>,
                  !.k = IF last THEN 0 ELSE f.k + 1,
                  !.p = IF last THEN f.p + 1 ELSE f.p]

\* _build_mask has run through the table and returns mask
MaskBuilt == wl.fn = "_build_mask" /\ wl.p > Len(wl.table)

otherVars == <<bpc, mainQ, emitted, gateVars, camVars, budget>>

MaskStep ==
    /\ wl.fn = "_build_mask"
    /\ wl.p <= Len(wl.table)
    /\ wl' = build_mask_step(wl)
    /\ UNCHANGED otherVars

\* the res arguments run() passes to _dots, in tenths of a degree
Resolutions == {30, 20, 12}

\* the colours _dots gives to a row, in thousandths
LandColour == <<0, 1000, 906>>

WaterColour == <<0, 200, 733>>

\* np.arange computes its k-th value as start + k*step in binary floating
\* point.  3.0, 2.0 and 1.5 and their multiples are exact; 1.2 is not, so its
\* values carry a rounding error far below the 1e-2 degree unit used here,
\* which int() can only see where the exact value is a whole degree: there
\* the value is taken one unit below, at, or one unit above the whole degree
Drifts(res, k) ==
    IF res % 5 # 0 /\ k > 0 /\ (k * res) % 10 = 0 THEN {-1, 0, 1} ELSE {0}

\* the frame of _dots(mask, res) when it reaches its outer loop; i and j are
\* the indices of lat and lng in their np.arange
dots_frame(mask, res) ==
    [fn |-> "_dots", mask |-> mask, res |-> res, i |-> 0, j |-> 0, n |-> 0,
     row |-> <<>>]

\* dots_step with a fault: only land samples get a row
dots_step_landOnly(f, elat, elng) ==
    LET lat   == 10 * (-900 + f.i * f.res) + elat
        lng   == 10 * (-1800 + f.j * f.res) + elng
        li    == TruncDiv((lng + 18000) % 36000, 100) % 360
        la    == Max(0, Min(179, TruncDiv(8900 - lat, 100)))
        land  == <<li, la>> \in f.mask
        lastj == f.j + 1 = ArangeLen(-1800, 1800, f.res)
    IN  [f EXCEPT !.n = IF land THEN f.n + 1 ELSE f.n,
                  !.row = <<[lat |-> lat, lng |-> lng, li |-> li, la |-> la,
                             colour |-> LandColour]>>,
                  !.j = IF lastj THEN 0 ELSE f.j + 1,
                  !.i = IF lastj THEN f.i + 1 ELSE f.i]

\* one iteration of the inner loop of _dots: the sample (lat, lng), in 1e-2
\* degrees, looks up mask[li, la] and appends one row in its colour
dots_step(f, elat, elng) ==
    LET lat   == 10 * (-900 + f.i * f.res) + elat
        lng   == 10 * (-1800 + f.j * f.res) + elng
        li    == TruncDiv((lng + 18000) % 36000, 100) % 360
        la    == Max(0, Min(179, TruncDiv(8900 - lat, 100)))
        land  == <<li, la>> \in f.mask
        lastj == f.j + 1 = ArangeLen(-1800, 1800, f.res)
    IN  [f EXCEPT !.n = f.n + 1,
                  !.row = <<[lat |-> lat, lng |-> lng, li |-> li, la |-> la,
                             colour |-> IF land THEN LandColour ELSE WaterColour]>>,
                  !.j = IF lastj THEN 0 ELSE f.j + 1,
                  !.i = IF lastj THEN f.i + 1 ELSE f.i]

\* _dots has run through both loops and returns its rows
DotsDone == wl.fn = "_dots" /\ wl.i = ArangeLen(-900, 910, wl.res)

\* run() calls _dots on the mask _build_mask returned
StartDots ==
    /\ MaskBuilt
    /\ \E res \in Resolutions : wl' = dots_frame(wl.mask, res)
    /\ UNCHANGED otherVars

DotStep ==
    /\ wl.fn = "_dots"
    /\ wl.i < ArangeLen(-900, 910, wl.res)
    /\ \E elat \in Drifts(wl.res, wl.i), elng \in Drifts(wl.res, wl.j) :
         wl' = dots_step(wl, elat, elng)
    /\ UNCHANGED otherVars

\* res of _borders, in tenths of a degree
BorderRes == 15

\* the frame of _borders(mask) when it reaches its outer loop; found is the
\* number of segments appended to segs so far
borders_frame(mask) ==
    [fn |-> "_borders", mask |-> mask, i |-> 0, j |-> 0, found |-> 0,
     samp |-> <<>>]

\* borders_step with a fault: the second comparison looks at row la-1
borders_step_north(f) ==
    LET lat   == 10 * (-880 + f.i * BorderRes)
        lng   == 10 * (-1800 + f.j * BorderRes)
        li    == TruncDiv((lng + 18000) % 36000, 100) % 360
        la    == Max(0, Min(179, TruncDiv(8900 - lat, 100)))
        li2   == (li + 1) % 360
        la2   == Max(0, Min(179, la - 1))
        cur   == <<li, la>> \in f.mask
        s1    == IF cur # (<<li2, la>> \in f.mask)
                 THEN << <<lat, lng>>, <<lat + 10 * BorderRes, lng>> >> ELSE <<>>
        s2    == IF cur # (<<li, la2>> \in f.mask)
                 THEN << <<lat, lng>>, <<lat, lng + 10 * BorderRes>> >> ELSE <<>>
        lastj == f.j + 1 = ArangeLen(-1800, 1790, BorderRes)
    IN  [f EXCEPT !.found = f.found + Len(s1 \o s2) \div 2,
                  !.samp = <<[li |-> li, la |-> la, pts |-> s1 \o s2]>>,
                  !.j = IF lastj THEN 0 ELSE f.j + 1,
                  !.i = IF lastj THEN f.i + 1 ELSE f.i]

\* one iteration of the inner loop of _borders: the cell of the sample
\* (lat, lng), in 1e-2 degrees, is compared with mask[li2, la] and with
\* mask[li, la2]; each comparison that differs appends two points, given
\* here by the (lat, lng) that ll2xyz is called with
borders_step(f) ==
    LET lat   == 10 * (-880 + f.i * BorderRes)
        lng   == 10 * (-1800 + f.j * BorderRes)
        li    == TruncDiv((lng + 18000) % 36000, 100) % 360
        la    == Max(0, Min(179, TruncDiv(8900 - lat, 100)))
        li2   == (li + 1) % 360
        la2   == Max(0, Min(179, la + 1))
        cur   == <<li, la>> \in f.mask
        s1    == IF cur # (<<li2, la>> \in f.mask)
                 THEN << <<lat, lng>>, <<lat + 10 * BorderRes, lng>> >> ELSE <<>>
        s2    == IF cur # (<<li, la2>> \in f.mask)
                 THEN << <<lat, lng>>, <<lat, lng + 10 * BorderRes>> >> ELSE <<>>
        lastj == f.j + 1 = ArangeLen(-1800, 1790, BorderRes)
    IN  [f EXCEPT !.found = f.found + Len(s1 \o s2) \div 2,
                  !.samp = <<[li |-> li, la |-> la, pts |-> s1 \o s2]>>,
                  !.j = IF lastj THEN 0 ELSE f.j + 1,
                  !.i = IF lastj THEN f.i + 1 ELSE f.i]

\* _borders has run through both loops
BordersDone == wl.fn = "_borders" /\ wl.i = ArangeLen(-880, 890, BorderRes)

\* borders_return with a fault: an empty segs list is returned as it is
borders_return_empty(f) == [len |-> 2 * f.found]

\* the array _borders returns: segs, or np.zeros((2,3)) when segs is empty
borders_return(f) == [len |-> IF f.found > 0 THEN 2 * f.found ELSE 2]

\* run() calls _borders on the mask _build_mask returned
StartBorders ==
    /\ MaskBuilt
    /\ wl' = borders_frame(wl.mask)
    /\ UNCHANGED otherVars

BorderStep ==
    /\ wl.fn = "_borders"
    /\ wl.i < ArangeLen(-880, 890, BorderRes)
    /\ wl' = borders_step(wl)
    /\ UNCHANGED otherVars

GenInit == wl \in {build_mask_frame(t) : t \in Tables} /\ InitRest

NextGen == MaskStep \/ StartDots \/ DotStep \/ StartBorders \/ BorderStep

SpecGen == GenInit /\ [][NextGen]_vars

-----------------------------------------------------------------------------
(* _stars, one loop iteration per step, in two runs side by side.  The value
   of a draw is kept symbolically as <<seed, n>>: the n-th output of a
   generator created with that seed.  Of the rows a run has appended the
   frame keeps their number and the last one; the rows of the first run wait
   in a window until the second run has produced the row of the same index. *)

\* the seed _stars passes to np.random.default_rng
StarSeed == 42

\* how many rows the first run may be ahead of the second
MaxAhead == 2

\* default_rng with a fault: no seed is passed, the generator is seeded from
\* fresh entropy each time it is created (here: the negated run number)
default_rng_entropy(seed, run) == [seed |-> 0 - run, drawn |-> 0]

\* np.random.default_rng(seed): a new generator that has drawn nothing; the
\* run that creates it has no influence on it
default_rng(seed, run) == [seed |-> seed, drawn |-> 0]

\* the value of the k-th next draw of generator g
Draw(g, k) == <<g.seed, g.drawn + k>>

\* the frame of _stars when it reaches its loop
stars_frame(run) ==
    [rng |-> default_rng(StarSeed, run), n |-> 0, row |-> <<>>]

\* one iteration of the loop of _stars: theta, the phi draw, r and b are
\* drawn in this order; x, y, z are computed from the first three and the
\* colour (b*0.85, b*0.9, b) from the fourth
stars_step(f) ==
    LET theta == Draw(f.rng, 1)
        u     == Draw(f.rng, 2)
        r     == Draw(f.rng, 3)
        b     == Draw(f.rng, 4)
    IN  [f EXCEPT !.rng.drawn = @ + 4,
                  !.n = @ + 1,
                  !.row = <<[theta |-> theta, phi |-> u, r |-> r, b |-> b]>>]

\* the loop of run r has made its range(4000) iterations
StarsDone(r) == wl.fn = "_stars" /\ wl.runs[r].n = StarCount

\* an iteration of the first run; its row joins the window
StarStepFirst ==
    /\ wl.fn = "_stars"
    /\ wl.runs[1].n < StarCount
    /\ Len(wl.window) < MaxAhead
    /\ LET f == stars_step(wl.runs[1])
       IN  wl' = [wl EXCEPT !.runs[1] = f, !.window = Append(@, f.row[1])]
    /\ UNCHANGED otherVars

\* an iteration of the second run; its row is compared with the first run's
\* row of the same index, which leaves the window
StarStepSecond ==
    /\ wl.fn = "_stars"
    /\ wl.runs[2].n < StarCount
    /\ wl.window # <<>>
    /\ LET f == stars_step(wl.runs[2])
       IN  wl' = [wl EXCEPT !.runs[2] = f, !.window = Tail(@),
                            !.differ = @ \/ f.row[1] # Head(wl.window)]
    /\ UNCHANGED otherVars

StarsInit ==
    /\ wl = [fn |-> "_stars", runs |-> <<stars_frame(1), stars_frame(2)>>,
             window |-> <<>>, differ |-> FALSE]
    /\ InitRest

NextStars == StarStepFirst \/ StarStepSecond

SpecStars == StarsInit /\ [][NextStars]_vars

-----------------------------------------------------------------------------
(* The interactive thread once the worker has finished: the done signal is
   still queued, the context may or may not exist.  Here wl is the log of the
   events Qt has handed to the widget: how many, the last one, and of the
   current left-button drag the previous mouse position and the offset of
   its last move. *)

\* the locals of run() at its k-th emit
RECURSIVE RunTo(_, _)
RunTo(k, nseg) == IF k = 0 THEN EmptyMap ELSE RunLocals(RunTo(k - 1, nseg), k, nseg)

\* the overlay after the first k progress signals were delivered
RECURSIVE Shown(_)
Shown(k) ==
    IF k = 0 THEN [pct |-> 0, bar |-> 0, shown |-> <<>>, fades |-> 0]
    ELSE set_progress(Shown(k - 1), RunProgress[k])

\* the log entry of an event
Logged(kind, button, pos) ==
    [wl EXCEPT !.n = @ + 1, !.kind = kind, !.button = button, !.pos = pos]

InputInit ==
    /\ wl = [fn |-> "events", n |-> 0, kind |-> "none", button |-> "none",
             pos |-> <<0, 0>>, drag |-> FALSE, prev |-> <<0, 0>>, delta |-> <<0, 0>>]
    /\ bpc = NEmits
    /\ \E nseg \in SegCounts :
         /\ emitted = [k \in 1..NEmits |-> RunEmit(RunTo(k, nseg), k)]
         /\ mainQ = <<emitted[NEmits]>>
    /\ gl_ok = FALSE
    /\ arrays = <<>>
    /\ vbos = EmptyMap
    /\ lod = "med"
    /\ gpu = <<>>
    /\ gate = <<>>
    /\ ready = <<>>
    /\ overlay = Shown(Len(RunProgress))
    /\ cam = [cam_z |-> CamInit, rot_x |-> 0, rot_y |-> 0, vel_x |-> 0, vel_y |-> 0,
              dragging |-> FALSE, last_pos |-> <<0, 0>>]
    /\ rotation_dir = "west-east"
    /\ marker = [set |-> FALSE, lat |-> 0, lng |-> 0, source |-> "ip"]
    /\ frame = <<>>
    /\ stats = <<>>
    /\ budget = [inputs |-> 0, ticks |-> 0, geo |-> FALSE, dups |-> 0]

\* one render tick, logged: GlobeWidget.paintGL, the ticks of the loading
\* phase included
PaintTick ==
    /\ gl_ok
    /\ budget.ticks < MaxTicks
    /\ budget' = [budget EXCEPT !.ticks = @ + 1]
    /\ wl' = Logged("tick", "none", <<0, 0>>)
    /\ IF DOMAIN vbos = {}
       THEN UNCHANGED <<cam, lod, frame>>
       ELSE /\ cam' = Momentum(cam, rotation_dir)
            /\ lod' = LodFor(cam.cam_z)
            /\ frame' = <<[cam_z |-> cam.cam_z, lod |-> LodFor(cam.cam_z),
                           drawn |-> vbo_points(vbos, DotsKey(LodFor(cam.cam_z)))]>>
    /\ UNCHANGED <<bpc, emitted, mainQ, gateVars, rotation_dir, marker, stats>>

PressEvent ==
    /\ InputStep
    /\ \E b \in Buttons, p \in Positions :
         /\ cam' = mousePressEvent(cam, b, p)
         /\ wl' = IF b = "left"
                  THEN [Logged("press", b, p) EXCEPT !.drag = TRUE, !.prev = p,
                                                     !.delta = <<0, 0>>]
                  ELSE Logged("press", b, p)
    /\ UNCHANGED <<bpc, emitted, mainQ, gateVars, rotation_dir, marker, lod, frame, stats>>

MoveEvent ==
    /\ InputStep
    /\ \E p \in Positions :
         /\ cam' = mouseMoveEvent(cam, p)
         /\ wl' = IF wl.drag
                  THEN [Logged("move", "none", p) EXCEPT
                            !.prev = p,
                            !.delta = <<p[1] - wl.prev[1], p[2] - wl.prev[2]>>]
                  ELSE Logged("move", "none", p)
    /\ UNCHANGED <<bpc, emitted, mainQ, gateVars, rotation_dir, marker, lod, frame, stats>>

ReleaseEvent ==
    /\ InputStep
    /\ \E b \in Buttons :
         /\ cam' = mouseReleaseEvent(cam, b)
         /\ wl' = IF b = "left"
                  THEN [Logged("release", b, <<0, 0>>) EXCEPT !.drag = FALSE]
                  ELSE Logged("release", b, <<0, 0>>)
    /\ UNCHANGED <<bpc, emitted, mainQ, gateVars, rotation_dir, marker, lod, frame, stats>>

NextInput ==
    \/ InitializeGL
    \/ DeliverDone
    \/ PaintTick
    \/ PressEvent
    \/ MoveEvent
    \/ ReleaseEvent
    \/ SetRotationDir
    \/ SetLocation

SpecInput == InputInit /\ [][NextInput]_vars

-----------------------------------------------------------------------------
(* Properties *)

\* number of occurrences of x in sequence q
Count(q, x) == Cardinality({i \in DOMAIN q : q[i] = x})

\* q is non-decreasing
NonDecreasing(q) == \A i \in 1..(Len(q) - 1) : q[i] <= q[i + 1]

\* the percentages of the progress signals in q, in order
Pcts(q) == LET P == SelectSeq(q, LAMBDA e : e.sig = "progress") IN [i \in DOMAIN P |-> P[i].pct]

\* the positions of the signals named sig in q
Where(q, sig) == {i \in DOMAIN q : q[i].sig = sig}

\* pitch and zoom are inside their clamps
InClamps == /\ -89000 <= cam.rot_x /\ cam.rot_x <= 89000
            /\ 130000 <= cam.cam_z /\ cam.cam_z <= 550000

\* C1: with contextReady (initializeGL) and bundleReady (set_arrays) each
\* occurring once, in either order: no upload has happened while only one of
\* them has occurred, and once both have occurred exactly one upload has
\* happened, in the step of the event that came last.
C1_UploadOnceOnLastEvent ==
    LET ni == Count(gate, "initializeGL")
        ns == Count(gate, "set_arrays")
        nu == Count(gate, "upload")
    IN  (ni <= 1 /\ ns <= 1) =>
          /\ (ni + ns < 2 => nu = 0 /\ gpu = <<>> /\ DOMAIN vbos = {})
          /\ (ni + ns = 2 => nu = 1 /\ Len(gate) = 3 /\ gate[3] = "upload" /\ Len(gpu) = 5)

\* C1 witness: the bundle arrived first, the context came last and uploaded
C1_Witness == gate = <<"set_arrays", "initializeGL", "upload">>

\* C2: once the upload has fired, a further step (a duplicate set_arrays or
\* initializeGL included) leaves the uploaded buffers and the upload count
\* unchanged.
C2_NoSecondUpload ==
    [][Count(gate, "upload") >= 1 =>
         (gpu' = gpu /\ Count(gate', "upload") = Count(gate, "upload"))]_vars

\* C3: glReady reaches its slot at most once, exactly once when the upload
\* has happened, and each time all five buffers are in place.
C3_ReadyOnceAfterFullUpload ==
    /\ Len(ready) <= 1
    /\ (Count(gate, "upload") >= 1 => Len(ready) = 1)
    /\ (Len(ready) >= 1 => Count(gate, "upload") >= 1 /\ Len(gpu) >= 5)
    /\ \A i \in DOMAIN ready :
         ready[i] = {"dots_low", "dots_med", "dots_high", "border", "stars"}

\* C3 witness: the notification has arrived
C3_Witness == Len(ready) = 1 /\ Count(gate, "upload") = 1

\* C4: as long as only mouse, wheel and tick events (and no set_location)
\* have occurred, pitch is in [-89,89] and zoom in [1.3,5.5].
C4_ClampsUnderInput == ~marker.set => InClamps

\* C4 witness: both clamps were hit by a drag and a wheel turn, ticks included
C4_Witness ==
    /\ ~marker.set
    /\ cam.rot_x = 89000
    /\ cam.cam_z = 130000
    /\ budget.ticks > 0

\* C5: pitch and zoom are inside their clamps after every update, the
\* set_location calls included.
C5_ClampsAfterEveryUpdate == InClamps

\* C6: a set_location(lat, lng, source) step stores (lat, lng, source) and
\* leaves yaw = pi - radians(lng+180) and pitch = -lat*0.5, whatever the
\* camera state before.
C6_SetLocationRecenters ==
    [][\A d \in GeoResults \cup LocationCalls :
         LocateWith(d) =>
           /\ marker' = [set |-> TRUE, lat |-> d.lat, lng |-> d.lng, source |-> d.source]
           /\ cam'.rot_y = 31416 - ((d.lng + 18000) * 31416) \div 18000
           /\ cam'.rot_x = -(d.lat * 5)]_vars

\* C6 witness: set_location ran in the middle of a drag with velocity left
C6_Witness ==
    /\ marker.set
    /\ cam.dragging
    /\ cam.vel_x # 0
    /\ cam.rot_x = -(marker.lat * 5)
    /\ cam.rot_y = 31416 - ((marker.lng + 18000) * 31416) \div 18000

\* C7: the LOD is high below 1.8, med from 1.8 up to but excluding 3.2, low
\* from 3.2 on (5.0 low, 2.5 med, 1.0 high), and the dot buffer a tick draws
\* is the uploaded buffer of the LOD chosen for the camera distance.
C7_LodByDistance ==
    /\ LodFor(500000) = "low" /\ LodFor(250000) = "med" /\ LodFor(100000) = "high"
    /\ frame # <<>> =>
         LET f == frame[1]
             want == IF f.cam_z < 180000 THEN "high"
                     ELSE IF f.cam_z < 320000 THEN "med" ELSE "low"
             key == CASE want = "high" -> "dots_high" [] want = "med" -> "dots_med"
                      [] OTHER -> "dots_low"
             data == CASE want = "high" -> arrays[1].dots.high
                       [] want = "med" -> arrays[1].dots.med
                       [] OTHER -> arrays[1].dots.low
         IN  /\ f.lod = want
             /\ lod = want
             /\ f.drawn = <<[key |-> key, gid |-> vbos[key][1], cnt |-> data.len]>>

\* C7 witness: a frame drawn at distance exactly 1.8, with the med buffer
C7_Witness == frame # <<>> /\ frame[1].cam_z = 180000 /\ frame[1].lod = "med"

\* C8: the percentages the worker delivers to the progress sink are
\* non-decreasing integers in 0..100, and so is the sequence the overlay
\* displays, the main window's own set_progress(100) calls included.
C8_ProgressMonotone ==
    LET sent == Pcts(emitted)
    IN  /\ NonDecreasing(sent)
        /\ NonDecreasing(overlay.shown)
        /\ \A i \in DOMAIN sent : sent[i] \in 0..100
        /\ \A i \in DOMAIN overlay.shown : overlay.shown[i] \in 0..100

\* C8 witness: every worker percentage and the main window's 100 were shown
C8_Witness == Len(overlay.shown) >= 11 /\ overlay.shown[Len(overlay.shown)] = 100

\* C9 as stated: once the run is over its progress percentages end at 100,
\* and the bundle emission comes after every progress event.
C9_EndsAt100 ==
    bpc = NEmits =>
      /\ Pcts(emitted)[Len(Pcts(emitted))] = 100
      /\ \A i \in Where(emitted, "progress") : \A j \in Where(emitted, "done") : i < j

\* C9 amended: once the run is over its progress percentages end at 95, and
\* at all times the bundle emission comes after every progress event.
C9_EndsAt95ThenBundle ==
    /\ \A i \in Where(emitted, "progress") : \A j \in Where(emitted, "done") : i < j
    /\ bpc = NEmits =>
         /\ Pcts(emitted)[Len(Pcts(emitted))] = 95
         /\ Where(emitted, "done") # {}

\* C9 witness: the run is over
C9_Witness == bpc = NEmits /\ emitted[Len(emitted)].sig = "done"

\* C10: a completed run has emitted exactly one bundle, holding dotsLow,
\* dotsMed, dotsHigh, borders and stars; the bundle is handed to the render
\* side at most once, and is that bundle; and from the handoff on no step
\* changes the bundle the render side holds or the arrays the worker built.
C10_BundleOnceImmutable ==
    /\ [](/\ Cardinality(Where(emitted, "done")) <= 1
          /\ Count(gate, "set_arrays") <= 1
          /\ (bpc = NEmits =>
                /\ Cardinality(Where(emitted, "done")) = 1
                /\ DOMAIN emitted[Len(emitted)].arrays = {"dots", "border", "stars"}
                /\ DOMAIN emitted[Len(emitted)].arrays.dots = {"low", "med", "high"})
          /\ (arrays # <<>> =>
                /\ Count(gate, "set_arrays") = 1
                /\ bpc = NEmits
                /\ arrays[1] = emitted[Len(emitted)].arrays))
    /\ [][arrays # <<>> => (arrays' = arrays /\ wl' = wl)]_vars

\* C10 witness: the bundle was handed over and uploaded
C10_Witness == arrays # <<>> /\ Count(gate, "set_arrays") = 1 /\ Len(gpu) = 5


\* C11: a run that a failing stage has ended has emitted no bundle, complete
\* or partial, so no set_arrays and no upload follow from it, and the run is
\* not started again: its position and its emitted signals stay as they are
C11_FailedRunEmitsNoBundle ==
    /\ [](bpc = Raised =>
            /\ Where(emitted, "done") = {}
            /\ arrays = <<>>
            /\ Count(gate, "set_arrays") = 0
            /\ Count(gate, "upload") = 0
            /\ gpu = <<>>)
    /\ [][bpc = Raised => (bpc' = bpc /\ emitted' = emitted /\ wl' = wl)]_vars

\* C11 witness: the star stage failed after nine progress signals, all of
\* them delivered, with the context initialised
C11_Witness ==
    bpc = Raised /\ Len(emitted) = 9 /\ mainQ = <<>> /\ gl_ok /\ Len(overlay.shown) = 9

\* the signals of the worker that have reached their slots
Delivered == SubSeq(emitted, 1, Len(emitted) - Len(mainQ))

\* C12: once a stage has failed and every queued signal has been delivered,
\* the main window has received a report of the failure, that is a signal
\* other than a progress percentage
C12_FailureSurfaced ==
    (bpc = Raised /\ mainQ = <<>>) =>
        \E i \in DOMAIN Delivered : Delivered[i].sig # "progress"


\* the cells that the even-odd test of the centre puts inside at least one
\* entry of the table whose box range covers them
CoveredInside(table) ==
    UNION { { MaskIndex(c[1], c[2]) :
                c \in { b \in Lngs(table[i]) \X Lats(table[i]) :
                          pip(2 * b[1] + 1, 2 * b[2] + 1, table[i].poly) } } :
            i \in DOMAIN table }

\* C17: while _build_mask runs through the table, a step visits a cell of
\* the current entry's box range, changes at most that cell, never turns a
\* land cell into water and leaves a cell that is land already as it is; so
\* the mask it returns has as land cells exactly the cells whose centre the
\* even-odd test puts inside some entry whose box range covers them
C17_FirstMatchWins ==
    /\ [](MaskBuilt => wl.mask = CoveredInside(wl.table))
    /\ [][(wl.fn = "_build_mask" /\ wl' # wl /\ wl'.fn = "_build_mask") =>
            LET c == wl'.cell[1]
                e == wl.table[c.p]
            IN  /\ c.p = wl.p
                /\ c.lng \in Lngs(e) /\ c.lat \in Lats(e)
                /\ wl.mask \subseteq wl'.mask
                /\ (wl'.mask \ wl.mask) \subseteq {MaskIndex(c.lng, c.lat)}
                /\ c.skipped = (MaskIndex(c.lng, c.lat) \in wl.mask)
                /\ c.skipped => wl'.mask = wl.mask]_vars

\* C17 witness: a cell of Britain's box that Europe made land was skipped
\* although Britain's own ring leaves its centre outside, and the table is
\* finished
C17_Witness ==
    /\ MaskBuilt
    /\ Len(wl.table) = 2
    /\ \E lng \in Lngs(Britain), lat \in Lats(Britain) :
         /\ MaskIndex(lng, lat) \in wl.mask
         /\ ~pip(2 * lng + 1, 2 * lat + 1, Britain.poly)


\* the least n with n * b >= a, for a >= 0 and b > 0
Ceil(a, b) == CHOOSE n \in 0..a : n * b >= a /\ (n - 1) * b < a

\* C13: every sample of _dots appends exactly one row, so for r = 3.0, 2.0
\* and 1.2 and every mask the array _dots returns has
\* ceil(360/r) * ceil(181/r) rows, whatever the mask holds
C13_DotCount ==
    wl.fn = "_dots" =>
        /\ wl.n = wl.i * Ceil(3600, wl.res) + wl.j
        /\ DotsDone => /\ wl.n = Ceil(3600, wl.res) * Ceil(1810, wl.res)
                       /\ wl.n = Dots(wl.res).len

\* C13 witness: the 1.2 degree array is complete, over a mask with land
C13_Witness == DotsDone /\ wl.res = 12 /\ wl.mask # {} /\ wl.n = 45300

\* C14: the row of every sample (lat, lon) has the land colour exactly when
\* the mask cell filled for the whole degrees (floor(lon), floor(lat)) is
\* land (lat 90 clamped to the top row), and the water colour otherwise
C14_DotColourOfContainingCell ==
    (wl.fn = "_dots" /\ wl.row # <<>>) =>
        LET r == wl.row[1]
            cell == MaskIndex(r.lng \div 100, r.lat \div 100)
        IN  /\ r.colour \in {LandColour, WaterColour}
            /\ (r.colour = LandColour) = (cell \in wl.mask)


\* 1 when the cells a and b of mask m are classified differently, else 0
Differ(m, a, b) == IF (a \in m) # (b \in m) THEN 1 ELSE 0

\* C15 as stated: the cell of every sample is compared with the cell one
\* column east (wrapping) and the cell one row north (clamped at the pole),
\* and one 2-point segment is appended per comparison that disagrees
C15_EastAndNorth ==
    (wl.fn = "_borders" /\ wl.samp # <<>>) =>
        LET c == wl.samp[1]
            east  == <<(c.li + 1) % 360, c.la>>
            north == <<c.li, Max(0, c.la - 1)>>
        IN  Len(c.pts) = 2 * (Differ(wl.mask, <<c.li, c.la>>, east)
                              + Differ(wl.mask, <<c.li, c.la>>, north))

\* C15 amended: the cell of every sample is compared with the cell one
\* column east (wrapping) and the cell one row south (row la+1, clamped at
\* the south pole row 179), and one 2-point segment is appended per
\* comparison that disagrees, none otherwise
C15_EastAndSouth ==
    (wl.fn = "_borders" /\ wl.samp # <<>>) =>
        LET c == wl.samp[1]
            east  == <<(c.li + 1) % 360, c.la>>
            south == <<c.li, Min(179, c.la + 1)>>
        IN  Len(c.pts) = 2 * (Differ(wl.mask, <<c.li, c.la>>, east)
                              + Differ(wl.mask, <<c.li, c.la>>, south))

\* C15 witness: a sample whose cell differs from both neighbours, so that
\* two segments were appended
C15_Witness == wl.fn = "_borders" /\ wl.samp # <<>> /\ Len(wl.samp[1].pts) = 4

\* C16: for every mask the array _borders returns is not empty and holds an
\* even number of points: the 2-point placeholder when no comparison
\* disagreed (as for the mask without land), two points per segment else
C16_BorderBufferEven ==
    BordersDone =>
        LET b == borders_return(wl)
        IN  /\ b.len >= 2
            /\ b.len % 2 = 0
            /\ b.len = (IF wl.found = 0 THEN 2 ELSE 2 * wl.found)
            /\ b = Borders(wl.found)
            /\ wl.mask = {} => wl.found = 0

\* C16 witness: _borders has finished without a segment
C16_Witness == BordersDone /\ wl.found = 0 /\ wl.samp # <<>>



\* C18 as stated: whenever a marker is set its source is ip or gps
C18_SourceIpOrGps == marker.set => marker.source \in {"ip", "gps"}

\* C18 amended: the marker source is always ip, gps or default, and what the
\* path GeoThread.result -> _on_geo -> set_location stores is ip (an API
\* answered) or default (the fallback location)
C18_SourceIpGpsOrDefault ==
    /\ [](marker.source \in {"ip", "gps", "default"})
    /\ [][(budget'.geo /\ ~budget.geo) =>
            (marker'.set /\ marker'.source \in {"ip", "default"})]_vars

\* C18 witness: the fallback location was stored by _on_geo
C18_Witness == marker.set /\ budget.geo /\ marker.source = "default"


\* C20: a step of the worker (one that moves run() on) creates no buffer,
\* uploads nothing and draws nothing; the render-context state changes only
\* in steps of the interactive thread; _upload runs only inside set_arrays or
\* initializeGL, and by then the worker has emitted done, its last statement,
\* so no stage is still working on the arrays being uploaded
C20_GlOnlyOnInteractiveThread ==
    /\ []((gpu # <<>> \/ arrays # <<>>) => bpc = NEmits)
    /\ [][bpc' # bpc => UNCHANGED <<gl_ok, arrays, vbos, gpu, gate, frame>>]_vars
    /\ [][gpu' # gpu =>
            /\ Len(gate') = Len(gate) + 2
            /\ gate'[Len(gate')] = "upload"
            /\ gate'[Len(gate') - 1] \in {"set_arrays", "initializeGL"}
            /\ UNCHANGED <<bpc, wl>>]_vars

\* C20 witness: the context came first, the bundle was uploaded on its
\* delivery and a frame was drawn from the buffers, the worker being finished
C20_Witness ==
    /\ gate = <<"initializeGL", "set_arrays", "upload">>
    /\ Len(gpu) = 5
    /\ frame # <<>>
    /\ bpc = NEmits

\* get_stats() leaves the widget, the worker and the queue as they are: a
\* step that changes the displayed snapshot changes nothing else
StatsReadOnly ==
    [][stats' # stats =>
         UNCHANGED <<workerVars, mainQ, gateVars, cam, rotation_dir, marker,
                     lod, frame, budget>>]_vars

\* C19: the border value a statistics snapshot reports is the number of
\* segments _borders produced for the uploaded bundle, 0 when only the
\* placeholder was produced
C19_StatsBorderIsSegmentCount ==
    stats # <<>> => stats[1].border_cnt = wl["segs"]


C24_ReadyHandlingOnce ==
    LET uploads == Count(gate, "upload")
    IN  /\ overlay.fades = (IF uploads = 0 THEN 0 ELSE 1)
        /\ Count(overlay.shown, 100) = overlay.fades


\* C25: in every statistics snapshot read after the upload, the LOD name is
\* the one the distance thresholds select for the zoom distance of the same
\* snapshot, and the point count is the length of that LOD's dot array
C25_StatsLodMatchesZoom ==
    stats # <<>> =>
        LET s   == stats[1]
            sel == LodFor(s.zoom * 1000)
        IN  /\ s.lod = Upper(sel)
            /\ s.cnt = arrays[1].dots[sel].len


\* a step that handles the event kind: the log grows by one entry of that kind
Handled(kind) == wl'.n = wl.n + 1 /\ wl'.kind = kind

\* the yaw increment of the claim for the selected direction
DirectionIncrement ==
    CASE rotation_dir = "west-east" -> AutoRot
      [] rotation_dir = "east-west" -> 0 - AutoRot
      [] OTHER -> 0

\* yaw, pitch and residual velocity of the camera
Attitude(c) == <<c.rot_y, c.rot_x, c.vel_y, c.vel_x>>

\* what the claim says of a tick, from the camera before it
TickUpdate ==
    IF cam.dragging
    THEN Attitude(cam') = Attitude(cam)
    ELSE /\ cam'.vel_y = Decay(cam.vel_y)
         /\ cam'.vel_x = Decay(cam.vel_x)
         /\ cam'.rot_y = cam.rot_y + DirectionIncrement + Decay(cam.vel_y)
         /\ cam'.rot_x = Clamp(-PitchMax, PitchMax, cam.rot_x + Decay(cam.vel_x))

\* C22 (as stated): on every render tick the update is applied: decay, yaw
\* by direction increment plus decayed velocity, pitch by decayed velocity
\* and clamped when not dragging; nothing when dragging
C22_UpdateOnEveryTick == [][Handled("tick") => TickUpdate]_vars

\* C22 (amended): the update is applied on every render tick after the
\* upload; on a tick of the loading phase the camera is left unchanged
C22_UpdateOnEveryTickAfterUpload ==
    [][Handled("tick") => IF DOMAIN vbos = {} THEN cam' = cam ELSE TickUpdate]_vars

\* after a tick outside a drag, with the buffers uploaded: a decayed,
\* non-zero residual velocity
C22_Witness ==
    /\ wl.fn = "events" /\ wl.kind = "tick"
    /\ DOMAIN vbos # {} /\ ~cam.dragging
    /\ cam.vel_y # 0 /\ cam.vel_x # 0

====
